---------------------------- MODULE Spec2Model ----------------------------
(***************************************************************************)
(* ECO2Auto: the `run` command (eco2auto/app.py) and the batch automation  *)
(* of the ECO2 desktop program (eco2auto/automate.py).                     *)
(*                                                                         *)
(* A path is a record [abs, parts]; parts is the sequence of its           *)
(* components and a component is [stem, suffix], the way pathlib splits a  *)
(* file name.  The filesystem is a set of files [path, by]: by = 0 for a   *)
(* file present before the run, k for a report exported by item k.         *)
(***************************************************************************)
EXTENDS Integers, Sequences, FiniteSets, TLC

\* ------------------------------------------------------------------ bounds
MaxStems == 2
MaxItems == 3

\* ------------------------------------------------------------------- paths
StemNames == <<"a", "b", "c", "d">>
Stems == {StemNames[i] : i \in 1..MaxStems}

Comp(stem, suffix) == [stem |-> stem, suffix |-> suffix]
Root == [abs |-> TRUE, parts |-> <<>>]
PathJoin(p, c) == [abs |-> p.abs, parts |-> Append(p.parts, c)]

CWD == PathJoin(Root, Comp("in", ""))
InDir == PathJoin(Root, Comp("in", ""))
OutDir == PathJoin(Root, Comp("out", ""))
WorkDir == PathJoin(Root, Comp("workspace", ""))
DeepDir == PathJoin(WorkDir, Comp("eco", ""))
Dirs == {Root, InDir, OutDir, WorkDir, DeepDir}

\* Path.absolute()
Absolute(p) == IF p.abs THEN p ELSE [abs |-> TRUE, parts |-> CWD.parts \o p.parts]

\* Path.parent
Parent(p) ==
    IF p.parts = <<>> THEN p
    ELSE [abs |-> p.abs, parts |-> SubSeq(p.parts, 1, Len(p.parts) - 1)]

\* Path.name split into stem and suffix
Name(p) == p.parts[Len(p.parts)]

\* Path.with_suffix(suffix)
with_suffix(p, suffix) ==
    [abs |-> p.abs,
     parts |-> [p.parts EXCEPT ![Len(p.parts)] = Comp(Name(p).stem, suffix)]]

\* Path.suffix
Suffix(p) == IF p.parts = <<>> THEN "" ELSE Name(p).suffix

\* Path.is_dir()
is_dir(p) == Absolute(p) \in Dirs

\* Path.exists() / Path.is_file() on the filesystem f
is_file(f, p) == \E x \in f : x.path = Absolute(p)
exists(f, p) == is_dir(p) \/ is_file(f, p)

\* os.path.commonpath([a, b]): the longest common prefix of the components
RECURSIVE CommonLen(_, _, _)
CommonLen(a, b, n) ==
    IF n < Len(a) /\ n < Len(b) /\ a[n + 1] = b[n + 1]
    THEN CommonLen(a, b, n + 1)
    ELSE n

commonpath(a, b) ==
    [abs |-> a.abs, parts |-> SubSeq(a.parts, 1, CommonLen(a.parts, b.parts, 0))]

\* ------------------------------------------------- options (None | value)
None == <<>>
Some(x) == <<x>>

\* destination argument: None, one Path, or a sequence of Paths
DstNone == [kind |-> "none", path |-> Root, list |-> <<>>]
DstPath(p) == [kind |-> "path", path |-> p, list |-> <<>>]
DstList(l) == [kind |-> "list", path |-> Root, list |-> l]
\* one path given as a str, which is an Iterable
DstStr(p) == [kind |-> "str", path |-> p, list |-> <<>>]

\* ---------------------------------------------------------------- Eco2Path
XLS == ".xls"

\* create with the source's own file name kept for the destination
create_keeps_suffix(s, dst) ==
    IF dst = None
    THEN [src |-> s, dst |-> s, root |-> Some(Parent(s))]
    ELSE LET d0 == dst[1]
             d == IF is_dir(d0) THEN PathJoin(d0, Name(s)) ELSE d0
         IN  [src |-> s, dst |-> d, root |-> Some(commonpath(s, d))]

\* Eco2Path.create(src, dst); dst is an option
create(s, dst) ==
    IF dst = None
    THEN [src |-> s, dst |-> with_suffix(s, XLS), root |-> Some(Parent(s))]
    ELSE LET d0 == dst[1]
             d == IF is_dir(d0) THEN PathJoin(d0, Comp(Name(s).stem, XLS)) ELSE d0
         IN  [src |-> s, dst |-> d, root |-> Some(commonpath(s, d))]

\* len(Path.as_posix())
NameLen(c) == Len(c.stem) + Len(c.suffix)

RECURSIVE NamesLen(_)
NamesLen(parts) ==
    IF parts = <<>> THEN 0 ELSE NameLen(Head(parts)) + NamesLen(Tail(parts))

PosixLen(p) ==
    IF p.parts = <<>> THEN 1
    ELSE IF p.abs THEN NamesLen(p.parts) + Len(p.parts)
    ELSE NamesLen(p.parts) + Len(p.parts) - 1

\* Path.relative_to(root), for a root that is a prefix of p
relative_to(p, root) ==
    [abs |-> FALSE, parts |-> SubSeq(p.parts, Len(root.parts) + 1, Len(p.parts))]

min_root_len == 10

\* relative with the root dropped at the threshold itself
relative_le(p, n) ==
    IF p.root = None \/ PosixLen(p.root[1]) <= n
    THEN [src |-> p.src, dst |-> p.dst, root |-> None]
    ELSE [src |-> relative_to(p.src, p.root[1]),
          dst |-> relative_to(p.dst, p.root[1]),
          root |-> p.root]

\* Eco2Path.relative(min_root_len)
relative(p, n) ==
    IF p.root = None \/ PosixLen(p.root[1]) < n
    THEN [src |-> p.src, dst |-> p.dst, root |-> None]
    ELSE [src |-> relative_to(p.src, p.root[1]),
          dst |-> relative_to(p.dst, p.root[1]),
          root |-> p.root]

Logged(p) == Some([p |-> p, r |-> relative(p, min_root_len)])

Min(a, b) == IF a < b THEN a ELSE b

\* Eco2Path.iter(src, dst): the items the generator yields, and whether it
\* then raises ValueError (zip(..., strict=True) on unequal lengths)
iter(srcs, dst) ==
    IF dst.kind = "none" \/ (dst.kind = "path" /\ is_dir(dst.path))
    THEN [items |-> [i \in 1..Len(srcs) |->
                        create(srcs[i], IF dst.kind = "none" THEN None ELSE Some(dst.path))],
          err |-> FALSE]
    ELSE LET itd == IF dst.kind = "list" THEN dst.list ELSE <<dst.path>>
             n == Min(Len(srcs), Len(itd))
         IN  [items |-> [i \in 1..n |-> create(srcs[i], Some(itd[i]))],
              err |-> Len(srcs) # Len(itd)]

\* ----------------------------------------------------------------- inputs
Overwrite == {"raise", "overwrite", "skip"}

SrcSuffixes == {".eco", ".ecox"}
suffix == {".eco", ".ecox", ".tpl", ".tplx"}

SrcPool == {PathJoin(InDir, Comp(s, x)) : s \in Stems, x \in SrcSuffixes}
SingleSource == PathJoin(InDir, Comp("a", ".eco"))
ExplicitDst == PathJoin(OutDir, Comp("r", ".xlsx"))
ExplicitDst2 == PathJoin(OutDir, Comp("a", XLS))

Sources == {InDir, SingleSource}
Destinations ==
    {DstNone, DstPath(OutDir), DstPath(ExplicitDst),
     DstList(<<ExplicitDst, ExplicitDst2>>)}

OldFile(p) == [path |-> p, by |-> 0]

\* all orders in which a directory listing can enumerate the set S
RECURSIVE Orders(_)
Orders(S) ==
    IF S = {} THEN {<<>>}
    ELSE UNION {{<<x>> \o q : q \in Orders(S \ {x})} : x \in S}

\* the entries Path.glob('*') finds in the directory d
Children(f, d) ==
    {x.path : x \in {y \in f : Parent(y.path) = Absolute(d)}}
    \cup {x \in Dirs : x # Root /\ Parent(x) = Absolute(d)}

\* app._source(path, suffix) when glob enumerates in the order `listing`
_source(f, path, listing) ==
    IF ~ is_dir(path) THEN <<path>>
    ELSE SelectSeq(listing,
                   LAMBDA p : Parent(p) = Absolute(path) /\ is_file(f, p)
                              /\ Suffix(p) \in suffix)

Workflow == <<"open", "calculate", "write_report">>

\* installations C:/ECO2_*/Eco2Ar.exe; the names are in lexicographic order
InstallNames == <<"ECO2_2019", "ECO2_2020", "ECO2_2021", "ECO2_2022", "ECO2_2023">>
Eco2Exe(i) == PathJoin(PathJoin(Root, Comp(InstallNames[i], "")), Comp("Eco2Ar", ".exe"))

\* find_eco2() when the glob enumerates `found`; raises FileNotFoundError
\* when `found` is empty
find_eco2(found) == found[Len(found)]

VARIABLES
    fs,           \* the filesystem: set of files [path, by]
    fs0,          \* the filesystem when the command started
    source,       \* SOURCE argument of the command
    destination,  \* DESTINATION argument of the command
    overwrite,    \* --overwrite policy
    running,      \* an instance of the driven application is running
    installed,    \* find_eco2(): what the glob ECO2_*/Eco2Ar.exe enumerates
    graph,        \* the result-graph window is open
    project,      \* option: the file opened in the driven application
    src,          \* run(): the discovered sources
    pc,           \* position in run()
    error,        \* the exception that ended run(), "" if none
    session,      \* the Eco2App object: "none", "live", "closed"
    created,      \* number of Eco2App objects constructed
    closed,       \* number of Eco2App.close() calls
    launched,     \* number of application instances started
    idx,          \* number of items the batch_run generator has produced
    paths,        \* run(): the items batch_run has yielded
    calls,        \* Eco2App operations executed: [op, item, path, ui]
    dstExisted,   \* items whose destination existed when batch_run reached them
    logged,       \* option: the item batch_run logged last, [p, r] with r = p.relative()
    started       \* option: the executable Eco2App.__init__ started

vars == <<fs, fs0, source, destination, overwrite, running, installed, graph,
          project, src, pc, error, session, created, closed, launched, idx,
          paths, calls, dstExisted, logged, started>>

Call(op, item, path, ui) == [op |-> op, item |-> item, path |-> path, ui |-> ui]

Init ==
    /\ \E files \in SUBSET SrcPool, pre \in SUBSET Stems, ex \in BOOLEAN :
          /\ Cardinality(files) <= MaxItems
          /\ fs = {OldFile(p) : p \in files}
                  \cup {OldFile(PathJoin(d, Comp(s, XLS))) : s \in pre, d \in {InDir, OutDir}}
                  \cup (IF ex THEN {OldFile(ExplicitDst)} ELSE {})
    /\ fs0 = fs
    /\ source \in Sources
    /\ destination \in Destinations
    /\ overwrite \in Overwrite
    /\ running \in BOOLEAN
    /\ installed \in {<<>>, <<Eco2Exe(1)>>}
    /\ graph = FALSE
    /\ project = None
    /\ src = <<>>
    /\ pc = "source"
    /\ error = ""
    /\ session = "none"
    /\ created = 0
    /\ closed = 0
    /\ launched = 0
    /\ idx = 0
    /\ paths = <<>>
    /\ calls = <<>>
    /\ dstExisted = {}
    /\ logged = None
    /\ started = None

\* an exception that is swallowed: the batch goes on with the next item
Fail_continue(e) == pc' = "batch_run" /\ error' = e

Fail(e) == pc' = "failed" /\ error' = e

\* ------------------------------------------------------------ app.run()
\* run() without the early return on an empty source list
run_source_no_return ==
    /\ pc = "source"
    /\ \E listing \in Orders(Children(fs, source)) :
          /\ src' = _source(fs, source, listing)
          /\ pc' = "init"
    /\ UNCHANGED <<fs, fs0, source, destination, overwrite, running, installed,
                   graph, project, error, session, created, closed, launched,
                   idx, paths, calls, dstExisted, logged, started>>

\* run(): extension filter and source discovery; returns when nothing found
run_source ==
    /\ pc = "source"
    /\ \E listing \in Orders(Children(fs, source)) :
          /\ src' = _source(fs, source, listing)
          /\ pc' = IF src' = <<>> THEN "done" ELSE "init"
    /\ UNCHANGED <<fs, fs0, source, destination, overwrite, running, installed,
                   graph, project, error, session, created, closed, launched,
                   idx, paths, calls, dstExisted, logged, started>>

\* Eco2App.__init__ that starts the program without looking at the
\* connection
Eco2App_init_always_starts ==
    /\ pc = "init"
    /\ calls' = Append(calls, Call("Eco2App", 0, Root, TRUE))
    /\ IF ~ running /\ installed = <<>>
       THEN /\ Fail("FileNotFoundError")
            /\ UNCHANGED <<running, launched, session, created, started>>
       ELSE /\ running' = TRUE
            /\ launched' = launched + 1
            /\ started' = IF installed = <<>> THEN started ELSE Some(find_eco2(installed))
            /\ session' = "live"
            /\ created' = created + 1
            /\ pc' = "check_dst"
            /\ error' = error
    /\ UNCHANGED <<fs, fs0, source, destination, overwrite, installed, graph,
                   project, src, closed, idx, paths, dstExisted, logged>>

\* Eco2App.__init__: connect to a running instance or start one, focus, login
Eco2App_init ==
    /\ pc = "init"
    /\ calls' = Append(calls, Call("Eco2App", 0, Root, TRUE))
    /\ IF ~ running /\ installed = <<>>
       THEN /\ Fail("FileNotFoundError")
            /\ UNCHANGED <<running, launched, session, created, started>>
       ELSE /\ running' = TRUE
            /\ launched' = IF running THEN launched ELSE launched + 1
            /\ started' = IF running THEN started ELSE Some(find_eco2(installed))
            /\ session' = "live"
            /\ created' = created + 1
            /\ pc' = "check_dst"
            /\ error' = error
    /\ UNCHANGED <<fs, fs0, source, destination, overwrite, installed, graph,
                   project, src, closed, idx, paths, dstExisted, logged>>

\* Eco2App.check_dst: the exception it raises, "" when it returns
RECURSIVE FirstExisting(_, _, _)
FirstExisting(f, items, i) ==
    IF i > Len(items) THEN 0
    ELSE IF exists(f, items[i].dst) THEN i
    ELSE FirstExisting(f, items, i + 1)

\* check_dst looking at the first pair only
check_dst_first_only(ow, f, srcs, dst) ==
    IF ow # "raise" THEN ""
    ELSE LET P == iter(srcs, dst)
         IN  IF Len(P.items) > 0 /\ exists(f, P.items[1].dst) THEN "FileExistsError"
             ELSE IF P.err THEN "ValueError"
             ELSE ""

check_dst_result(ow, f, srcs, dst) ==
    IF ow # "raise" THEN ""
    ELSE LET P == iter(srcs, dst)
         IN  IF FirstExisting(f, P.items, 1) # 0 THEN "FileExistsError"
             ELSE IF P.err THEN "ValueError"
             ELSE ""

check_dst ==
    /\ pc = "check_dst"
    /\ LET e == check_dst_result(overwrite, fs, src, destination)
       IN  /\ pc' = IF e = "" THEN "batch_run" ELSE "failed"
           /\ error' = e
    /\ UNCHANGED <<fs, fs0, source, destination, overwrite, running, installed,
                   graph, project, src, session, created, closed, launched,
                   idx, paths, calls, dstExisted, logged, started>>

\* the item batch_run is working on
Pairs == iter(src, destination)
cur == Pairs.items[idx]

\* Eco2App.batch_run: the generator is resumed by list(): next pair, the
\* end of the pairing, or the ValueError of the strict zip
AfterBatch_no_close == "report"

AfterBatch == "close"

batch_run ==
    /\ pc = "batch_run"
    /\ IF idx < Len(Pairs.items)
       THEN /\ idx' = idx + 1
            /\ dstExisted' = IF exists(fs, Pairs.items[idx + 1].dst)
                             THEN dstExisted \cup {idx + 1} ELSE dstExisted
            /\ logged' = Logged(Pairs.items[idx + 1])
            /\ pc' = "run"
            /\ error' = error
       ELSE /\ IF Pairs.err THEN Fail("ValueError")
               ELSE pc' = AfterBatch /\ error' = error
            /\ UNCHANGED <<idx, dstExisted, logged>>
    /\ UNCHANGED <<fs, fs0, source, destination, overwrite, running, installed,
                   graph, project, src, session, created, closed, launched,
                   paths, calls, started>>

\* Eco2App.run: the skip decision
skips_never(ow, f, dst) == ow = "raise" /\ exists(f, dst)

skips(ow, f, dst) == ow = "skip" /\ exists(f, dst)

\* Eco2App.run: the step that follows each step of the workflow
StepAfter_swapped(op) ==
    CASE op = "run" -> "calculate"
      [] op = "calculate" -> "open"
      [] op = "open" -> "write_report"
      [] op = "write_report" -> "yield"

StepAfter(op) ==
    CASE op = "run" -> "open"
      [] op = "open" -> "calculate"
      [] op = "calculate" -> "write_report"
      [] op = "write_report" -> "yield"

\* Eco2App.run on a Session constructed anew for the item
run_new_session ==
    /\ pc = "run"
    /\ pc' = IF skips(overwrite, fs, Absolute(cur.dst)) THEN "yield" ELSE StepAfter("run")
    /\ created' = created + 1
    /\ UNCHANGED <<fs, fs0, source, destination, overwrite, running, installed,
                   graph, project, src, error, session, closed,
                   launched, idx, paths, calls, dstExisted, logged, started>>

run ==
    /\ pc = "run"
    /\ pc' = IF skips(overwrite, fs, Absolute(cur.dst)) THEN "yield" ELSE StepAfter("run")
    /\ UNCHANGED <<fs, fs0, source, destination, overwrite, running, installed,
                   graph, project, src, error, session, created, closed,
                   launched, idx, paths, calls, dstExisted, logged, started>>

\* Eco2App.open with the UI driven before the path is checked
Eco2App_open_focus_first(path, k, next) ==
    /\ calls' = Append(calls, Call("open", k, path, TRUE))
    /\ IF ~ path.abs
       THEN Fail("NotAbsolutePathError") /\ UNCHANGED project
       ELSE IF ~ exists(fs, path)
       THEN Fail("FileNotFoundError") /\ UNCHANGED project
       ELSE \E ok \in BOOLEAN :
               IF ok
               THEN /\ project' = Some(path)
                    /\ pc' = next
                    /\ error' = error
               ELSE /\ Fail("ElementNotFoundError")
                    /\ UNCHANGED project

\* Eco2App.open(path), called as call number k, continuing at `next`
Eco2App_open(path, k, next) ==
    IF ~ path.abs
    THEN /\ Fail("NotAbsolutePathError")
         /\ calls' = Append(calls, Call("open", k, path, FALSE))
         /\ UNCHANGED project
    ELSE IF ~ exists(fs, path)
    THEN /\ Fail("FileNotFoundError")
         /\ calls' = Append(calls, Call("open", k, path, FALSE))
         /\ UNCHANGED project
    ELSE /\ calls' = Append(calls, Call("open", k, path, TRUE))
         /\ \E ok \in BOOLEAN :
               IF ok
               THEN /\ project' = Some(path)
                    /\ pc' = next
                    /\ error' = error
               ELSE /\ Fail("ElementNotFoundError")
                    /\ UNCHANGED project

\* Eco2App.run: self.open(src)
open ==
    /\ pc = "open"
    /\ Eco2App_open(Absolute(cur.src), idx, StepAfter("open"))
    /\ UNCHANGED <<fs, fs0, source, destination, overwrite, running, installed,
                   graph, src, session, created, closed, launched, idx, paths,
                   dstExisted, logged, started>>

\* Eco2App.calculate
calculate ==
    /\ pc = "calculate"
    /\ calls' = Append(calls, Call("calculate", idx, Root, TRUE))
    /\ graph' = FALSE
    /\ \E ok \in BOOLEAN :
          IF ok THEN pc' = StepAfter("calculate") /\ error' = error
          ELSE Fail("ElementNotFoundError")
    /\ UNCHANGED <<fs, fs0, source, destination, overwrite, running, installed,
                   project, src, session, created, closed, launched, idx,
                   paths, dstExisted, logged, started>>

\* the file the export leaves at path p
Write(f, p, k) == {x \in f : x.path # p} \cup {[path |-> p, by |-> k]}

\* Eco2App.write_report answering the replace dialog with yes under skip
Eco2App_write_report_skip_replaces(path, k, next) ==
    IF ~ path.abs
    THEN /\ Fail("NotAbsolutePathError")
         /\ calls' = Append(calls, Call("write_report", k, path, FALSE))
         /\ UNCHANGED <<fs, graph>>
    ELSE IF overwrite = "raise" /\ exists(fs, path)
    THEN /\ Fail("FileExistsError")
         /\ calls' = Append(calls, Call("write_report", k, path, FALSE))
         /\ UNCHANGED <<fs, graph>>
    ELSE /\ calls' = Append(calls, Call("write_report", k, path, TRUE))
         /\ \E ok \in BOOLEAN :
               IF ~ ok
               THEN /\ Fail("ElementNotFoundError")
                    /\ UNCHANGED <<fs, graph>>
               ELSE /\ graph' = TRUE
                    /\ IF exists(fs, path)
                       THEN CASE overwrite = "raise" ->
                                   /\ Fail("FileExistsError")
                                   /\ UNCHANGED fs
                              [] overwrite = "overwrite" ->
                                   /\ fs' = Write(fs, path, k)
                                   /\ pc' = next
                                   /\ error' = error
                              [] overwrite = "skip" ->
                                   /\ fs' = Write(fs, path, k)
                                   /\ pc' = next
                                   /\ error' = error
                       ELSE /\ fs' = Write(fs, path, k)
                            /\ pc' = next
                            /\ error' = error

\* Eco2App.write_report(path), called as call number k, continuing at `next`
Eco2App_write_report(path, k, next) ==
    IF ~ path.abs
    THEN /\ Fail("NotAbsolutePathError")
         /\ calls' = Append(calls, Call("write_report", k, path, FALSE))
         /\ UNCHANGED <<fs, graph>>
    ELSE IF overwrite = "raise" /\ exists(fs, path)
    THEN /\ Fail("FileExistsError")
         /\ calls' = Append(calls, Call("write_report", k, path, FALSE))
         /\ UNCHANGED <<fs, graph>>
    ELSE /\ calls' = Append(calls, Call("write_report", k, path, TRUE))
         /\ \E ok \in BOOLEAN :
               IF ~ ok
               THEN /\ Fail("ElementNotFoundError")
                    /\ UNCHANGED <<fs, graph>>
               ELSE /\ graph' = TRUE
                    /\ IF exists(fs, path)
                       THEN CASE overwrite = "raise" ->
                                   /\ Fail("FileExistsError")
                                   /\ UNCHANGED fs
                              [] overwrite = "overwrite" ->
                                   /\ fs' = Write(fs, path, k)
                                   /\ pc' = next
                                   /\ error' = error
                              [] overwrite = "skip" ->
                                   /\ UNCHANGED fs
                                   /\ pc' = next
                                   /\ error' = error
                       ELSE /\ fs' = Write(fs, path, k)
                            /\ pc' = next
                            /\ error' = error

\* Eco2App.run: self.write_report(dst)
write_report ==
    /\ pc = "write_report"
    /\ Eco2App_write_report(Absolute(cur.dst), idx, StepAfter("write_report"))
    /\ UNCHANGED <<fs0, source, destination, overwrite, running, installed,
                   project, src, session, created, closed, launched, idx,
                   paths, dstExisted, logged, started>>

\* Eco2App.batch_run: yield p, appended to paths by list()
yield ==
    /\ pc = "yield"
    /\ paths' = Append(paths, cur)
    /\ pc' = "batch_run"
    /\ UNCHANGED <<fs, fs0, source, destination, overwrite, running, installed,
                   graph, project, src, error, session, created, closed,
                   launched, idx, calls, dstExisted, logged, started>>

\* Eco2App.close
close ==
    /\ pc = "close"
    /\ calls' = Append(calls, Call("close", 0, Root, TRUE))
    /\ graph' = FALSE
    /\ running' = FALSE
    /\ project' = None
    /\ session' = "closed"
    /\ closed' = closed + 1
    /\ pc' = "report"
    /\ UNCHANGED <<fs, fs0, source, destination, overwrite, installed, src,
                   error, created, launched, idx, paths, dstExisted, logged, started>>

\* run(): the combined report beside the first yielded destination
ReportPath == PathJoin(Parent(paths[1].dst), Comp("Report", ".xlsx"))

\* run() writing the report whether or not Report.xlsx exists
report_always_writes ==
    /\ pc = "report"
    /\ IF paths # <<>>
       THEN fs' = Write(fs, ReportPath, Len(src) + 1)
       ELSE UNCHANGED fs
    /\ pc' = "done"
    /\ UNCHANGED <<fs0, source, destination, overwrite, running, installed,
                   graph, project, src, error, session, created, closed,
                   launched, idx, paths, calls, dstExisted, logged, started>>

report ==
    /\ pc = "report"
    /\ IF paths # <<>> /\ ~ (exists(fs, ReportPath) /\ overwrite # "overwrite")
       THEN fs' = Write(fs, ReportPath, Len(src) + 1)
       ELSE UNCHANGED fs
    /\ pc' = "done"
    /\ UNCHANGED <<fs0, source, destination, overwrite, running, installed,
                   graph, project, src, error, session, created, closed,
                   launched, idx, paths, calls, dstExisted, logged, started>>

Next ==
    \/ run_source
    \/ Eco2App_init
    \/ check_dst
    \/ batch_run
    \/ run
    \/ open
    \/ calculate
    \/ write_report
    \/ yield
    \/ close
    \/ report

Spec == Init /\ [][Next]_vars

\* ------------------------------------- Eco2App.open / write_report called
\* directly on a live Session, with any path a caller can pass
RelPath(c) == [abs |-> FALSE, parts |-> <<c>>]

ApiFiles ==
    {PathJoin(InDir, Comp("a", ".eco")), PathJoin(InDir, Comp("b", ".eco")),
     PathJoin(OutDir, Comp("a", XLS))}

ApiPaths == ApiFiles \cup {RelPath(Comp("a", ".eco")), RelPath(Comp("a", XLS))}

InitApi ==
    /\ \E files \in SUBSET ApiFiles : fs = {OldFile(p) : p \in files}
    /\ fs0 = fs
    /\ source = InDir
    /\ destination = DstNone
    /\ overwrite \in Overwrite
    /\ running = TRUE
    /\ installed = <<Eco2Exe(1)>>
    /\ graph = FALSE
    /\ project = None
    /\ src = <<>>
    /\ pc = "api"
    /\ error = ""
    /\ session = "live"
    /\ created = 1
    /\ closed = 0
    /\ launched = 0
    /\ idx = 0
    /\ paths = <<>>
    /\ calls = <<>>
    /\ dstExisted = {}
    /\ logged = None
    /\ started = None

api_open ==
    /\ pc = "api"
    /\ Len(calls) < MaxItems
    /\ \E path \in ApiPaths : Eco2App_open(path, Len(calls) + 1, "api")
    /\ UNCHANGED <<fs, fs0, source, destination, overwrite, running, installed,
                   graph, src, session, created, closed, launched, idx, paths,
                   dstExisted, logged, started>>

api_write_report ==
    /\ pc = "api"
    /\ Len(calls) < MaxItems
    /\ \E path \in ApiPaths : Eco2App_write_report(path, Len(calls) + 1, "api")
    /\ UNCHANGED <<fs0, source, destination, overwrite, running, installed,
                   project, src, session, created, closed, launched, idx,
                   paths, dstExisted, logged, started>>

NextApi ==
    \/ api_open
    \/ api_write_report

SpecApi == InitApi /\ [][NextApi]_vars

\* ------------------------------------------- find_eco2 over any enumeration
InstallPool == {Eco2Exe(i) : i \in 1..(MaxItems + 1)}

InitFind ==
    /\ installed \in UNION {Orders(S) : S \in SUBSET InstallPool}
    /\ fs = {OldFile(SingleSource)}
    /\ fs0 = fs
    /\ source = SingleSource
    /\ destination = DstNone
    /\ overwrite = "overwrite"
    /\ running = FALSE
    /\ graph = FALSE
    /\ project = None
    /\ src = <<SingleSource>>
    /\ pc = "init"
    /\ error = ""
    /\ session = "none"
    /\ created = 0
    /\ closed = 0
    /\ launched = 0
    /\ idx = 0
    /\ paths = <<>>
    /\ calls = <<>>
    /\ dstExisted = {}
    /\ logged = None
    /\ started = None

NextFind == Eco2App_init

SpecFind == InitFind /\ [][NextFind]_vars

\* --------------------------------- discovery in a directory with a subtree
TreeFiles ==
    {PathJoin(WorkDir, Comp("a", ".eco")), PathJoin(WorkDir, Comp("b", ".ecox")),
     PathJoin(WorkDir, Comp("n", ".txt")), PathJoin(DeepDir, Comp("a", ".eco")),
     PathJoin(DeepDir, Comp("b", ".tpl"))}

InitSource ==
    /\ \E files \in SUBSET TreeFiles : fs = {OldFile(p) : p \in files}
    /\ fs0 = fs
    /\ source = WorkDir
    /\ destination = DstNone
    /\ overwrite \in Overwrite
    /\ running = FALSE
    /\ installed = <<Eco2Exe(1)>>
    /\ graph = FALSE
    /\ project = None
    /\ src = <<>>
    /\ pc = "source"
    /\ error = ""
    /\ session = "none"
    /\ created = 0
    /\ closed = 0
    /\ launched = 0
    /\ idx = 0
    /\ paths = <<>>
    /\ calls = <<>>
    /\ dstExisted = {}
    /\ logged = None
    /\ started = None

NextSource == run_source

SpecSource == InitSource /\ [][NextSource]_vars

\* ------------------------------------------ Eco2Path.iter on any arguments
PairFiles ==
    {PathJoin(InDir, Comp("a", ".eco")), PathJoin(WorkDir, Comp("a", ".eco")),
     PathJoin(WorkDir, Comp("b", ".ecox")), PathJoin(DeepDir, Comp("a", ".eco"))}

PairDestinations ==
    {DstNone, DstPath(OutDir), DstPath(DeepDir), DstStr(OutDir),
     DstPath(ExplicitDst), DstList(<<ExplicitDst, ExplicitDst2>>)}

InitPair ==
    /\ src \in UNION {Orders(S) : S \in {T \in SUBSET PairFiles : Cardinality(T) <= MaxItems}}
    /\ destination \in PairDestinations
    /\ fs = {OldFile(src[i]) : i \in 1..Len(src)}
    /\ fs0 = fs
    /\ source = InDir
    /\ overwrite = "overwrite"
    /\ running = FALSE
    /\ installed = <<Eco2Exe(1)>>
    /\ graph = FALSE
    /\ project = None
    /\ pc = "pair"
    /\ error = ""
    /\ session = "none"
    /\ created = 0
    /\ closed = 0
    /\ launched = 0
    /\ idx = 0
    /\ paths = <<>>
    /\ calls = <<>>
    /\ dstExisted = {}
    /\ logged = None
    /\ started = None

\* list(Eco2Path.iter(src, dst)): the items handed out, and the ValueError
iter_all ==
    /\ pc = "pair"
    /\ paths' = iter(src, destination).items
    /\ IF iter(src, destination).err
       THEN Fail("ValueError")
       ELSE pc' = "paired" /\ error' = error
    /\ UNCHANGED <<fs, fs0, source, destination, overwrite, running, installed,
                   graph, project, src, session, created, closed, launched,
                   idx, calls, dstExisted, logged, started>>

\* Eco2App.batch_run: r = p.relative() of an item of the pairing
log_relative ==
    /\ pc = "paired"
    /\ \E j \in 1..Len(paths) : logged' = Logged(paths[j])
    /\ UNCHANGED <<fs, fs0, source, destination, overwrite, running, installed,
                   graph, project, src, pc, error, session, created, closed,
                   launched, idx, paths, calls, dstExisted, started>>

NextPair ==
    \/ iter_all
    \/ log_relative

SpecPair == InitPair /\ [][NextPair]_vars

\* ------------------------- the run command where Report.xlsx may pre-exist
ReportName == Comp("Report", ".xlsx")

InitReport ==
    /\ \E files \in SUBSET SrcPool, pre \in SUBSET Stems, rep \in SUBSET {InDir, OutDir} :
          /\ Cardinality(files) <= MaxItems
          /\ fs = {OldFile(p) : p \in files}
                  \cup {OldFile(PathJoin(d, Comp(s, XLS))) : s \in pre, d \in {InDir, OutDir}}
                  \cup {OldFile(PathJoin(d, ReportName)) : d \in rep}
    /\ fs0 = fs
    /\ source \in Sources
    /\ destination \in {DstNone, DstPath(OutDir), DstPath(ExplicitDst)}
    /\ overwrite \in Overwrite
    /\ running = TRUE
    /\ installed = <<Eco2Exe(1)>>
    /\ graph = FALSE
    /\ project = None
    /\ src = <<>>
    /\ pc = "source"
    /\ error = ""
    /\ session = "none"
    /\ created = 0
    /\ closed = 0
    /\ launched = 0
    /\ idx = 0
    /\ paths = <<>>
    /\ calls = <<>>
    /\ dstExisted = {}
    /\ logged = None
    /\ started = None

SpecReport == InitReport /\ [][Next]_vars

TypeOK ==
    /\ pc \in {"source", "init", "check_dst", "batch_run", "run", "open",
               "calculate", "write_report", "yield", "close", "report",
               "done", "failed", "api", "pair", "paired"}
    /\ session \in {"none", "live", "closed"}
    /\ idx \in 0..Len(src)

\* ------------------------------------------------------------- properties
IsPrefix(s, t) == Len(s) <= Len(t) /\ s = SubSeq(t, 1, Len(s))

\* the open / calculate / write_report calls, and those made for item k
ItemCalls == SelectSeq(calls, LAMBDA c : c.item > 0)
CallsOf(k) == SelectSeq(calls, LAMBDA c : c.item = k)
OpsOf(k) == [i \in 1..Len(CallsOf(k)) |-> CallsOf(k)[i].op]

\* a paired destination existed when the command started
PairedDstExisted0 == \E k \in 1..Len(Pairs.items) : exists(fs0, Pairs.items[k].dst)

\* item k is in the output of batch_run
Yielded(k) == \E j \in 1..Len(paths) : paths[j] = Pairs.items[k]

\* C1: under policy raise with an existing paired destination the batch
\* fails before a Session is created and before any UI Driver call
C1_PreflightBeforeSession ==
    (overwrite = "raise" /\ PairedDstExisted0) => (created = 0 /\ calls = <<>>)

\* C2: under policy raise, if any paired destination existed at the start,
\* no item is opened, computed or exported, wherever the collision is
C2_RaiseProcessesNothing ==
    (overwrite = "raise" /\ PairedDstExisted0)
        => (ItemCalls = <<>> /\ paths = <<>> /\ idx = 0 /\ fs = fs0)

C2_Witness ==
    /\ overwrite = "raise"
    /\ pc = "failed"
    /\ error = "FileExistsError"
    /\ Len(Pairs.items) >= 2
    /\ ~ exists(fs0, Pairs.items[1].dst)
    /\ PairedDstExisted0

\* C3: under policy skip an item whose destination existed before it was
\* run is not in the output of the batch
C3_SkippedNotYielded ==
    overwrite = "skip" => \A k \in dstExisted : ~ Yielded(k)

\* C4: under policy skip, an item whose destination exists gets no
\* open / calculate / write_report call at all, and an item whose
\* destination does not exist gets open, calculate, write_report in full
C4_SkipRunsNothing ==
    overwrite = "skip" =>
        \A k \in 1..idx :
            /\ k \in dstExisted => CallsOf(k) = <<>>
            /\ k \notin dstExisted =>
                  /\ IsPrefix(OpsOf(k), Workflow)
                  /\ (k < idx \/ pc \notin {"run", "open"}) => OpsOf(k) # <<>>
                  /\ Yielded(k) =>
                        /\ OpsOf(k) = Workflow
                        /\ \A i \in 1..Len(CallsOf(k)) : CallsOf(k)[i].ui

C4_Witness ==
    /\ overwrite = "skip"
    /\ pc = "done"
    /\ \E k \in 1..idx : k \in dstExisted /\ CallsOf(k) = <<>>
    /\ \E k \in 1..idx : k \notin dstExisted /\ OpsOf(k) = Workflow

\* number of yielded items that went through the whole workflow
processedCount == Cardinality({k \in 1..Len(paths) : OpsOf(k) = Workflow})

\* C5: for every restartEvery r > 0 the Session is closed and a fresh one
\* opened after each item at which processedCount modulo r = 0, so the
\* next item's open runs in Session number 1 + processedCount \div r
C5_RestartEveryN ==
    \A r \in 1..MaxItems : pc = "open" => created = 1 + (processedCount \div r)

\* C6: items are processed in pairing order, one at a time, and within an
\* item open precedes calculate, which precedes write_report
C6_WorkflowOrder ==
    /\ \A a, b \in 1..Len(ItemCalls) :
          a < b => ItemCalls[a].item <= ItemCalls[b].item
    /\ \A k \in 1..Len(src) : IsPrefix(OpsOf(k), Workflow)
    /\ \A a \in 1..Len(ItemCalls) :
          LET c == ItemCalls[a]
          IN  /\ c.item <= Len(src)
              /\ c.op = "open" => c.path = Absolute(src[c.item])
              /\ c.op = "write_report" => c.path = Absolute(Pairs.items[c.item].dst)

C6_Witness ==
    /\ pc = "done"
    /\ Len(src) >= 2
    /\ Len(ItemCalls) = 3 * Len(src)

\* C7 (as claimed): on completion the Session has been closed exactly once,
\* also when there was no item
C7_ClosedExactlyOnce == pc = "done" => closed = 1

\* C7 (amended): on completion with at least one item the one Session
\* created has been closed exactly once; with no item no Session was
\* created and none was closed
C7_ClosedOnceWhenItems ==
    pc = "done" =>
        /\ created = (IF src = <<>> THEN 0 ELSE 1)
        /\ closed = created
        /\ session # "live"

C7_Witness == pc = "done" /\ src # <<>> /\ closed = 1 /\ session = "closed"

\* C8: when open, calculate or write_report fails and ends the batch, the
\* Session that was created has been closed
C8_ClosedOnFailure ==
    (pc = "failed" /\ ItemCalls # <<>>) => (session = "closed" /\ closed = created)

\* C9: a count mismatch between the sources and an explicit destination
\* list is raised before any item is opened, computed or exported, under
\* every policy
C9_MismatchFailsFast == Pairs.err => ItemCalls = <<>>

\* C10 (as claimed): every paired destination has the suffix .xls
C10_DstIsXls ==
    \A k \in 1..Len(Pairs.items) : Suffix(Pairs.items[k].dst) = XLS

\* C10 (amended): when the destination is omitted or is a directory, every
\* paired destination, and every path handed to write_report, has the
\* suffix .xls whatever the suffix of the source
C10_DerivedDstIsXls ==
    (destination.kind = "none" \/ (destination.kind = "path" /\ is_dir(destination.path)))
        => /\ \A k \in 1..Len(Pairs.items) : Suffix(Pairs.items[k].dst) = XLS
           /\ \A a \in 1..Len(calls) :
                 calls[a].op = "write_report" => Suffix(calls[a].path) = XLS

C10_Witness ==
    /\ pc = "done"
    /\ destination = DstPath(OutDir)
    /\ \E j \in 1..Len(paths) :
          Suffix(paths[j].src) = ".ecox" /\ Suffix(paths[j].dst) = XLS

\* C13: at most one Session is live at any instant (so a Session is created
\* only when none is live), and exactly one is live while an item is
\* between the start of open and the end of write_report
C13_OneLiveSession ==
    /\ created - closed \in {0, 1}
    /\ session = "live" <=> created - closed = 1
    /\ pc \in {"open", "calculate", "write_report"} =>
          (session = "live" /\ created - closed = 1)

C13_Witness == pc = "calculate" /\ idx >= 2 /\ session = "live" /\ created = 1

\* open, calculate or write_report of item idx has raised
ItemFailure == idx > 0 /\ error \notin {"", "ValueError"}

\* C14: when a step of item k raises the batch ends: no retry, no step of a
\* later item, and the output is exactly the items before k
C14_FailureEndsBatch ==
    ItemFailure =>
        /\ pc = "failed"
        /\ Len(paths) = idx - 1
        /\ \A j \in 1..Len(paths) : paths[j] = Pairs.items[j]
        /\ ~ Yielded(idx)
        /\ \A a \in 1..Len(calls) : calls[a].item <= idx
        /\ OpsOf(idx) # <<>>
        /\ IsPrefix(OpsOf(idx), Workflow)
        /\ calls[Len(calls)].item = idx

C14_Witness ==
    /\ ItemFailure
    /\ pc = "failed"
    /\ idx = 2
    /\ Len(Pairs.items) >= 3
    /\ Len(paths) = 1

C20_NothingFound ==
    (src = <<>> /\ pc # "source") =>
        /\ pc = "done"
        /\ error = ""
        /\ created = 0
        /\ closed = 0
        /\ session = "none"
        /\ calls = <<>>
        /\ fs = fs0

C20_Witness ==
    /\ pc = "done"
    /\ src = <<>>
    /\ source = InDir
    /\ overwrite = "raise"
    /\ Children(fs, InDir) # {}

\* the call an Eco2App step has just made
LastCall == calls'[Len(calls')]

\* C11: write_report on an existing destination raises FileExistsError
\* under raise, replaces the file under overwrite, and under skip leaves it
\* untouched and returns normally; on a destination that does not exist the
\* export writes the file under every policy
C11_ExportPolicy ==
    [][(calls' # calls /\ LastCall.op = "write_report" /\ LastCall.path.abs) =>
          LET path == LastCall.path
              existed == exists(fs, path)
              new == Write(fs, path, LastCall.item)
          IN  /\ error' \in {"", "FileExistsError", "ElementNotFoundError"}
              /\ error' = "FileExistsError" <=> (existed /\ overwrite = "raise")
              /\ error' # "" => fs' = fs /\ pc' = "failed"
              /\ error' = "" =>
                    /\ pc' # "failed"
                    /\ LastCall.ui
                    /\ (existed /\ overwrite = "overwrite") => fs' = new
                    /\ (existed /\ overwrite = "skip") => fs' = fs
                    /\ ~ existed => (fs' = new /\ is_file(fs', path))]_vars

C11_Witness ==
    /\ overwrite = "skip"
    /\ pc = "api"
    /\ error = ""
    /\ \E a \in 1..Len(calls) :
          /\ calls[a].op = "write_report"
          /\ calls[a].ui
          /\ OldFile(calls[a].path) \in fs

\* C12: open with a path that is not absolute or does not exist, and
\* write_report with a path that is not absolute, raise before any UI
\* Driver call and change nothing in the driven application
C12_PathPreconditions ==
    [][(calls' # calls
        /\ \/ LastCall.op = "open"
              /\ (~ LastCall.path.abs \/ ~ exists(fs, LastCall.path))
           \/ LastCall.op = "write_report" /\ ~ LastCall.path.abs) =>
          /\ ~ LastCall.ui
          /\ pc' = "failed"
          /\ error' = (IF ~ LastCall.path.abs THEN "NotAbsolutePathError"
                       ELSE "FileNotFoundError")
          /\ UNCHANGED <<fs, graph, project, running, session>>]_vars

C12_Witness ==
    /\ pc = "failed"
    /\ error = "NotAbsolutePathError"
    /\ Len(calls) >= 2
    /\ calls[Len(calls)].op = "write_report"
    /\ ~ calls[Len(calls)].ui
    /\ project # None

Range(s) == {s[i] : i \in 1..Len(s)}
InstallRank(p) == CHOOSE i \in 1..Len(InstallNames) : Eco2Exe(i) = p
SortedLast(S) == CHOOSE p \in S : \A q \in S : InstallRank(q) <= InstallRank(p)

\* C17: find_eco2 fails when the glob has no match and otherwise returns
\* the match that is last in sorted order, whatever the enumeration order
C17_LastInSortedOrder ==
    /\ (installed = <<>> /\ pc # "init") => (pc = "failed" /\ error = "FileNotFoundError")
    /\ started # None => started[1] = SortedLast(Range(installed))
\* the files below directory d whose suffix is in the extension set: at
\* any depth when recursive, directly in d otherwise
Matching(f, d, recursive) ==
    {x.path : x \in {y \in f :
        /\ Suffix(y.path) \in suffix
        /\ IF recursive
           THEN /\ Len(y.path.parts) > Len(Absolute(d).parts)
                /\ IsPrefix(Absolute(d).parts, y.path.parts)
           ELSE Parent(y.path) = Absolute(d)}}

\* C18: with recursive = FALSE discovery returns no file of a subdirectory,
\* and with recursive = TRUE it returns every matching file at any depth
C18_RecursiveDiscovery ==
    \A recursive \in BOOLEAN :
        (pc # "source" /\ is_dir(source)) => Range(src) = Matching(fs, source, recursive)
\* the destination is a directory, whatever type it was passed as
DstIsDir == destination.kind \in {"path", "str"} /\ is_dir(destination.path)

\* C15: an explicit destination sequence of another length than the
\* sources makes the pairing fail with the count-mismatch error; an omitted
\* or directory destination never fails and gives one item per source, in
\* source order, with destination <source>.xls or <directory>/<stem>.xls
C15_PairingResult ==
    pc \in {"paired", "failed"} =>
        /\ (destination.kind = "list" /\ Len(destination.list) # Len(src))
              => error = "ValueError"
        /\ (destination.kind = "none" \/ DstIsDir) =>
              /\ error = ""
              /\ Len(paths) = Len(src)
              /\ \A i \in 1..Len(paths) :
                    /\ paths[i].src = src[i]
                    /\ paths[i].dst =
                          IF destination.kind = "none"
                          THEN [abs |-> src[i].abs,
                                parts |-> Append(Parent(src[i]).parts,
                                                 Comp(Name(src[i]).stem, ".xls"))]
                          ELSE [abs |-> destination.path.abs,
                                parts |-> Append(destination.path.parts,
                                                 Comp(Name(src[i]).stem, ".xls"))]

\* P is the longest path prefix that a and b share
LongestShared(P, a, b) ==
    /\ IsPrefix(P.parts, a.parts)
    /\ IsPrefix(P.parts, b.parts)
    /\ \/ Len(P.parts) = Len(a.parts)
       \/ Len(P.parts) = Len(b.parts)
       \/ a.parts[Len(P.parts) + 1] # b.parts[Len(P.parts) + 1]

Reports(f) == {x \in f : Name(x.path) = ReportName}
NewReports == {x \in Reports(fs) : x.by # 0}

\* C21: Report.xlsx beside the first yielded destination is written only if
\* it did not exist or the policy is overwrite; under raise and skip an
\* existing Report.xlsx stays as it was and the run ends without an error;
\* with no item yielded no report is written
C21_ReportFrame ==
    /\ \A x \in NewReports :
          /\ pc = "done"
          /\ paths # <<>>
          /\ x.path = PathJoin(Parent(paths[1].dst), ReportName)
          /\ ~ is_file(fs0, x.path) \/ overwrite = "overwrite"
    /\ overwrite \in {"raise", "skip"} => Reports(fs0) \subseteq fs
    /\ (pc = "done" /\ paths # <<>> /\ overwrite \in {"raise", "skip"}
        /\ is_file(fs0, ReportPath)) =>
          (error = "" /\ OldFile(ReportPath) \in fs /\ NewReports = {})
    /\ paths = <<>> => NewReports = {}

C21_Witness ==
    /\ pc = "done"
    /\ paths # <<>>
    /\ overwrite = "skip"
    /\ OldFile(ReportPath) \in fs
    /\ \E k \in 1..idx : OpsOf(k) = Workflow

=============================================================================
